---- MODULE Spec2Model ----
(***************************************************************************)
(* Model of the rme3 TDF wire codec (src/tdf.rs), the packet framing       *)
(* (src/packet.rs) and the per-connection loop (src/main.rs).              *)
(*                                                                         *)
(* Bytes are naturals 0..255, byte strings are sequences of bytes, and a   *)
(* reader is a byte string plus a cursor position (bytes consumed so far). *)
(***************************************************************************)
EXTENDS Integers, Sequences, FiniteSets, TLC

VARIABLES
    build,    \* "debug" (overflow checks on) or "release" (wrapping arithmetic)
    op,       \* which operation pair this run exercises
    input,    \* the value handed to the writer
    wire,     \* the writer's result: [st, out]
    result,   \* the reader's result
    pc,       \* position of the codec run: "start", "written", "done"
    sent,     \* connection: what the peer sends before it closes (see Sent)
    consumed, \* connection: number of bytes read from the socket so far
    conn,     \* connection: "open", "closed", "panicked", "aborted"
    log       \* connection: the outcome of every loop iteration so far

vars == <<build, op, input, wire, result, pc, sent, consumed, conn, log>>

(***************************************************************************)
(* Machine arithmetic on naturals.                                         *)
(***************************************************************************)
RECURSIVE Pow2(_)
Pow2(n) == IF n = 0 THEN 1 ELSE 2 * Pow2(n - 1)

RECURSIVE BitAnd(_, _)
BitAnd(a, b) ==
    IF a = 0 \/ b = 0 THEN 0
    ELSE (IF a % 2 = 1 /\ b % 2 = 1 THEN 1 ELSE 0) + 2 * BitAnd(a \div 2, b \div 2)

RECURSIVE BitOr(_, _)
BitOr(a, b) ==
    IF a = 0 THEN b
    ELSE IF b = 0 THEN a
    ELSE (IF a % 2 = 1 \/ b % 2 = 1 THEN 1 ELSE 0) + 2 * BitOr(a \div 2, b \div 2)

\* u8 << n and u8 >> n (the shifted value is truncated to 8 bits)
Shl8(a, n) == (a * Pow2(n)) % 256
Shr(a, n) == a \div Pow2(n)

\* TLC's integers are 32-bit.  A u32 is kept as its two 16-bit halves
\* <<high, low>>; UsizeMax stands for usize::MAX, the largest count there is.
UsizeMax == Pow2(30) + (Pow2(30) - 1)

\* usize subtraction: panics under overflow checks, wraps without them
SubOverflows(a, b) == a < b
WrappingSub(a, b) == IF a >= b THEN a - b ELSE UsizeMax - (b - a - 1)

Remaining(bytes, pos) == Len(bytes) - pos

(***************************************************************************)
(* TdfType (tdf.rs:7-58)                                                   *)
(***************************************************************************)
TdfTypeNames ==
    <<"VarInt", "String", "Blob", "Group", "List", "Map", "Union",
      "VarIntList", "Pair", "Tripple", "Float">>

Type(name) == [kind |-> name, raw |-> 0]
UnknownType(value) == [kind |-> "Unknown", raw |-> value]

TdfTypeValue(t) ==
    IF t.kind = "Unknown" THEN t.raw
    ELSE CHOOSE i \in 0..10 : TdfTypeNames[i + 1] = t.kind

TdfTypeFrom(value) ==
    IF value <= 10 THEN Type(TdfTypeNames[value + 1]) ELSE UnknownType(value)

(***************************************************************************)
(* Results of writers and readers (io::Result, or a panic / abort).        *)
(***************************************************************************)
WOk(bytes) == [st |-> "Ok", out |-> bytes]
WPanic == [st |-> "Panic", out |-> <<>>]

ROk(v, p) == [st |-> "Ok", val |-> v, pos |-> p]
RFail(kind, v, p) == [st |-> kind, val |-> v, pos |-> p]

(***************************************************************************)
(* VarInt (tdf.rs:97-132)                                                  *)
(***************************************************************************)
RECURSIVE VarIntWriteLoop(_)
VarIntWriteLoop(curr_shift) ==
    IF curr_shift >= 128
    THEN <<BitOr(BitAnd(curr_shift, 127), 128)>> \o VarIntWriteLoop(Shr(curr_shift, 7))
    ELSE <<curr_shift % 256>>

VarIntWrite(value) ==
    IF value < 64
    THEN <<value % 256>>
    ELSE <<BitOr(BitAnd(value, 63), 128)>> \o VarIntWriteLoop(Shr(value, 6))

RECURSIVE VarIntReadLoop(_, _, _, _)
VarIntReadLoop(bytes, pos, shift, res) ==
    IF Remaining(bytes, pos) < 1 THEN RFail("UnexpectedEof", res, pos)
    ELSE LET byte == bytes[pos + 1]
             result1 == BitOr(res, BitAnd(byte, 127) * Pow2(shift))
         IN IF byte < 128 THEN ROk(result1, pos + 1)
            ELSE VarIntReadLoop(bytes, pos + 1, shift, result1)

VarIntRead(bytes, pos) ==
    IF Remaining(bytes, pos) < 1 THEN RFail("UnexpectedEof", 0, pos)
    ELSE LET first == bytes[pos + 1]
         IN IF first >= 128
            THEN VarIntReadLoop(bytes, pos + 1, 6, BitAnd(first, 63))
            ELSE ROk(BitAnd(first, 63), pos + 1)

(***************************************************************************)
(* String (tdf.rs:134-160).  A String is its UTF-8 byte sequence.          *)
(***************************************************************************)
IsCont(b) == b >= 128 /\ b <= 191

\* String::from_utf8 accepts exactly the well-formed UTF-8 byte sequences
RECURSIVE Utf8Valid(_)
Utf8Valid(s) ==
    IF s = <<>> THEN TRUE
    ELSE LET b == s[1]
             n == Len(s)
         IN IF b < 128 THEN Utf8Valid(Tail(s))
            ELSE IF b >= 194 /\ b <= 223
                 THEN n >= 2 /\ IsCont(s[2]) /\ Utf8Valid(SubSeq(s, 3, n))
            ELSE IF b >= 224 /\ b <= 239
                 THEN /\ n >= 3
                      /\ IsCont(s[2]) /\ IsCont(s[3])
                      /\ (b = 224 => s[2] >= 160)
                      /\ (b = 237 => s[2] <= 159)
                      /\ Utf8Valid(SubSeq(s, 4, n))
            ELSE IF b >= 240 /\ b <= 244
                 THEN /\ n >= 4
                      /\ IsCont(s[2]) /\ IsCont(s[3]) /\ IsCont(s[4])
                      /\ (b = 240 => s[2] >= 144)
                      /\ (b = 244 => s[2] <= 143)
                      /\ Utf8Valid(SubSeq(s, 5, n))
            ELSE FALSE

\* The NUL-terminated clone `value` is built and then dropped: the length and
\* the bytes written are those of `self`.
StringWrite(self) ==
    LET value == IF Len(self) < 1 \/ self[Len(self)] # 0 THEN Append(self, 0) ELSE self
    IN VarIntWrite(Len(self)) \o self

\* vec![0u8; length - 1]: with length = 0 the subtraction panics under
\* overflow checks and otherwise wraps to usize::MAX, whose allocation panics
\* with a capacity overflow.
StringBody(bytes, l) ==
    IF l.st # "Ok" THEN RFail(l.st, <<>>, l.pos)
    ELSE IF SubOverflows(l.val, 1) THEN RFail("Panic", <<>>, l.pos)
    ELSE IF Remaining(bytes, l.pos) < l.val - 1 THEN RFail("UnexpectedEof", <<>>, l.pos)
    ELSE IF Remaining(bytes, l.pos + l.val - 1) < 1
         THEN RFail("UnexpectedEof", <<>>, l.pos + l.val - 1)
    ELSE IF Utf8Valid(SubSeq(bytes, l.pos + 1, l.pos + l.val - 1))
         THEN ROk(SubSeq(bytes, l.pos + 1, l.pos + l.val - 1), l.pos + l.val)
    ELSE RFail("InvalidData", <<>>, l.pos + l.val)

StringRead(bytes, pos) == StringBody(bytes, VarIntRead(bytes, pos))

(***************************************************************************)
(* Label <-> tag (tdf.rs:162-209).  A label is its byte sequence.          *)
(***************************************************************************)
\* buff[0..3] are indexed unconditionally
LabelToTagPanics(label) == Len(label) < 4

LabelToTag(label) ==
    LET b0 == label[1]
        b1 == label[2]
        b2 == label[3]
        b3 == label[4]
        r0 == BitOr(BitOr(BitOr(Shl8(BitAnd(b0, 64), 1), Shl8(BitAnd(b0, 16), 2)),
                          BitOr(Shl8(BitAnd(b0, 15), 2), Shr(BitAnd(b1, 64), 5))),
                    Shr(BitAnd(b1, 16), 4))
        r1 == BitOr(BitOr(Shl8(BitAnd(b1, 15), 4), Shr(BitAnd(b2, 64), 3)),
                    BitOr(Shr(BitAnd(b2, 16), 2), Shr(BitAnd(b2, 12), 2)))
        r2 == BitOr(BitOr(Shl8(BitAnd(b2, 3), 6), Shr(BitAnd(b3, 64), 1)),
                    BitAnd(b3, 31))
    IN <<r0, r1, r2>>

\* u32::to_be_bytes, and read_u32::<BigEndian> at byte offset pos
ToBeBytes(x) == <<Shr(x[1], 8), x[1] % 256, Shr(x[2], 8), x[2] % 256>>

ReadU32(bytes, pos) ==
    <<bytes[pos + 1] * 256 + bytes[pos + 2], bytes[pos + 3] * 256 + bytes[pos + 4]>>

\* head & 0xFFFFFF00 and head & 0xFF
TagOf(head) == <<head[1], BitAnd(head[2], 65280)>>
TypeByteOf(head) == BitAnd(head[2], 255)

RECURSIVE DropZeros(_)
DropZeros(s) ==
    IF s = <<>> THEN <<>>
    ELSE IF Head(s) = 0 THEN DropZeros(Tail(s))
    ELSE <<Head(s)>> \o DropZeros(Tail(s))

TagToLabel(tag) ==
    LET buff == ToBeBytes(tag)
        r0 == BitOr(BitOr(Shr(BitAnd(buff[1], 128), 1), Shr(BitAnd(buff[1], 64), 2)),
                    BitOr(Shr(BitAnd(buff[1], 48), 2), Shr(BitAnd(buff[1], 12), 2)))
        r1 == BitOr(BitOr(Shl8(BitAnd(buff[1], 2), 5), Shl8(BitAnd(buff[1], 1), 4)),
                    Shr(BitAnd(buff[2], 240), 4))
        r2 == BitOr(BitOr(Shl8(BitAnd(buff[2], 8), 3), Shl8(BitAnd(buff[2], 4), 2)),
                    BitOr(Shl8(BitAnd(buff[2], 3), 2), Shr(BitAnd(buff[3], 192), 6)))
        r3 == BitOr(Shl8(BitAnd(buff[3], 32), 1), BitAnd(buff[3], 31))
    IN DropZeros(<<r0, r1, r2, r3>>)

(***************************************************************************)
(* Tdf and LabeledTdf values (tdf.rs:69-86).  Every Tdf is a record of one *)
(* shape; a variant uses the fields it has and leaves the others empty:    *)
(*   VarInt(v)            ints = <<v>>                                     *)
(*   String(s), Blob(b)   text = the bytes                                 *)
(*   Group(start2, vs)    flag = start2, items = the LabeledTdf children   *)
(*   List(t, vs)          t1 = t, items = vs                               *)
(*   Map(k, v, ks, vs)    t1 = k, t2 = v, items = ks, items2 = vs          *)
(*   Union(d, opt)        ints = <<d>>, items = <<>> or <<payload>>        *)
(*   VarIntList(vs), Pair(a, b), Tripple(a, b, c)   ints = the values      *)
(*   Float(f)             ints = the bits of f, as the u32 <<high, low>>   *)
(***************************************************************************)
NoType == [kind |-> "None", raw |-> 0]

TdfUnknown ==
    [kind |-> "Unknown", ints |-> <<>>, text |-> <<>>, flag |-> FALSE,
     t1 |-> NoType, t2 |-> NoType, items |-> <<>>, items2 |-> <<>>]

TdfVarInt(v) == [TdfUnknown EXCEPT !.kind = "VarInt", !.ints = <<v>>]
TdfString(s) == [TdfUnknown EXCEPT !.kind = "String", !.text = s]
TdfBlob(b) == [TdfUnknown EXCEPT !.kind = "Blob", !.text = b]
TdfGroup(start2, values) ==
    [TdfUnknown EXCEPT !.kind = "Group", !.flag = start2, !.items = values]
TdfList(sub_type, values) ==
    [TdfUnknown EXCEPT !.kind = "List", !.t1 = sub_type, !.items = values]
TdfMap(key_type, value_type, keys, values) ==
    [TdfUnknown EXCEPT !.kind = "Map", !.t1 = key_type, !.t2 = value_type,
                       !.items = keys, !.items2 = values]
TdfUnion(data, value) ==
    [TdfUnknown EXCEPT !.kind = "Union", !.ints = <<data>>, !.items = value]
TdfVarIntList(values) == [TdfUnknown EXCEPT !.kind = "VarIntList", !.ints = values]
TdfPair(a, b) == [TdfUnknown EXCEPT !.kind = "Pair", !.ints = <<a, b>>]
TdfTripple(a, b, c) == [TdfUnknown EXCEPT !.kind = "Tripple", !.ints = <<a, b, c>>]
TdfFloat(bits) == [TdfUnknown EXCEPT !.kind = "Float", !.ints = bits]

LabeledTdf(label, tdf_type, tdf) == [label |-> label, type |-> tdf_type, value |-> tdf]

(***************************************************************************)
(* Writers (tdf.rs:211-295)                                                *)
(***************************************************************************)
\* Sequential writes `a?; b?; ...`: the first panic ends the write
RECURSIVE WSeq(_)
WSeq(ws) ==
    IF ws = <<>> THEN WOk(<<>>)
    ELSE IF Head(ws).st # "Ok" THEN WPanic
    ELSE LET rest == WSeq(Tail(ws))
         IN IF rest.st # "Ok" THEN WPanic ELSE WOk(Head(ws).out \o rest.out)

RECURSIVE VarIntsWrite(_)
VarIntsWrite(values) ==
    IF values = <<>> THEN <<>>
    ELSE VarIntWrite(Head(values)) \o VarIntsWrite(Tail(values))

RECURSIVE TdfWrite(_)
RECURSIVE LabeledTdfWrite(_)
RECURSIVE TdfsWrite(_)
RECURSIVE LabeledTdfsWrite(_)
RECURSIVE MapWriteLoop(_, _, _, _)

TdfsWrite(values) ==
    IF values = <<>> THEN WOk(<<>>)
    ELSE WSeq(<<TdfWrite(Head(values)), TdfsWrite(Tail(values))>>)

LabeledTdfsWrite(values) ==
    IF values = <<>> THEN WOk(<<>>)
    ELSE WSeq(<<LabeledTdfWrite(Head(values)), LabeledTdfsWrite(Tail(values))>>)

\* for i in 0..end { keys.get(i).unwrap(); values.get(i).unwrap(); ... }
MapWriteLoop(keys, values, i, end) ==
    IF i >= end THEN WOk(<<>>)
    ELSE IF i >= Len(keys) \/ i >= Len(values) THEN WPanic
    ELSE WSeq(<<TdfWrite(keys[i + 1]), TdfWrite(values[i + 1]),
                MapWriteLoop(keys, values, i + 1, end)>>)

\* Tdf::Map: the range is 0..(length - 1) and no count is written
MapWrite(self) ==
    LET length == Len(self.items)
    IN IF SubOverflows(length, 1) /\ build = "debug" THEN WPanic
       ELSE WSeq(<<WOk(<<TdfTypeValue(self.t1), TdfTypeValue(self.t2)>>),
                   MapWriteLoop(self.items, self.items2, 0, WrappingSub(length, 1))>>)

\* Tdf::Union: the payload is unwrapped whenever the discriminant is not 0x7F
UnionWrite(self) ==
    LET data == self.ints[1]
    IN IF data # 127
       THEN IF self.items = <<>> THEN WPanic
            ELSE WSeq(<<WOk(<<data>>), LabeledTdfWrite(self.items[1])>>)
       ELSE WOk(<<data>>)

GroupWrite(self) ==
    WSeq(<<WOk(IF self.flag THEN <<2>> ELSE <<>>),
           LabeledTdfsWrite(self.items),
           WOk(<<0>>)>>)

ListWrite(self) ==
    WSeq(<<WOk(<<TdfTypeValue(self.t1)>> \o VarIntWrite(Len(self.items))),
           TdfsWrite(self.items)>>)

\* write_f32::<BigEndian>: the four bytes of the bit pattern
FloatWrite(bits) == ToBeBytes(bits)

TdfWrite(self) ==
    CASE self.kind = "VarInt" -> WOk(VarIntWrite(self.ints[1]))
      [] self.kind = "String" -> WOk(StringWrite(self.text))
      [] self.kind = "Blob" -> WOk(VarIntWrite(Len(self.text)) \o self.text)
      [] self.kind = "Group" -> GroupWrite(self)
      [] self.kind = "List" -> ListWrite(self)
      [] self.kind = "Map" -> MapWrite(self)
      [] self.kind = "Union" -> UnionWrite(self)
      [] self.kind = "VarIntList" ->
            WOk(VarIntWrite(Len(self.ints)) \o VarIntsWrite(self.ints))
      [] self.kind = "Pair" -> WOk(VarIntsWrite(self.ints))
      [] self.kind = "Tripple" -> WOk(VarIntsWrite(self.ints))
      [] self.kind = "Float" -> WOk(FloatWrite(self.ints))
      [] self.kind = "Unknown" -> WOk(<<>>)

LabeledTdfWrite(self) ==
    IF LabelToTagPanics(self.label) THEN WPanic
    ELSE WSeq(<<WOk(LabelToTag(self.label) \o <<TdfTypeValue(self.type)>>),
                TdfWrite(self.value)>>)

(***************************************************************************)
(* Readers (tdf.rs:223-232, 305-387).  Each `x = read(..)?` is a reader    *)
(* applied to the stream and a continuation that takes its result.         *)
(***************************************************************************)
Fail(r) == RFail(r.st, TdfUnknown, r.pos)

\* The loop bound `length - 1` of List, Map and VarIntList: a panic when
\* length = 0 under overflow checks, usize::MAX iterations without them.
CountPanics(length) == SubOverflows(length, 1) /\ build = "debug"
LoopCount(length) == WrappingSub(length, 1)

\* More elements than any allocation can hold: a loop that never meets the
\* end of the stream ends in memory exhaustion.
ExhaustsMemory(count) == count >= Pow2(30)

RECURSIVE VarIntsRead(_, _, _, _)
RECURSIVE TdfRead(_, _, _)
RECURSIVE LabeledTdfRead(_, _)
RECURSIVE TdfsRead(_, _, _, _, _)
RECURSIVE MapReadLoop(_, _, _, _, _, _, _)
RECURSIVE GroupReadLoop(_, _, _, _)

VarIntsNext(bytes, count, acc, r) ==
    IF r.st # "Ok" THEN RFail(r.st, acc, r.pos)
    ELSE VarIntsRead(bytes, r.pos, count - 1, Append(acc, r.val))

\* for _ in 0..count { values.push(VarInt::read(r)?) }
VarIntsRead(bytes, pos, count, acc) ==
    IF count = 0 THEN ROk(acc, pos)
    ELSE VarIntsNext(bytes, count, acc, VarIntRead(bytes, pos))

TdfsNext(bytes, sub_type, count, acc, r) ==
    IF r.st # "Ok" THEN RFail(r.st, acc, r.pos)
    ELSE TdfsRead(bytes, r.pos, sub_type, count - 1, Append(acc, r.val))

\* for _ in 0..count { values.push(Tdf::read(r, &sub_type)?) }
TdfsRead(bytes, pos, sub_type, count, acc) ==
    IF count = 0 THEN ROk(acc, pos)
    ELSE IF sub_type.kind = "Unknown" /\ ExhaustsMemory(count) THEN RFail("Abort", acc, pos)
    ELSE TdfsNext(bytes, sub_type, count, acc, TdfRead(bytes, pos, sub_type))

MapPair(bytes, key_type, value_type, count, keys, values, k, v) ==
    IF v.st # "Ok" THEN Fail(v)
    ELSE MapReadLoop(bytes, v.pos, key_type, value_type, count - 1,
                     Append(keys, k.val), Append(values, v.val))

MapValue(bytes, key_type, value_type, count, keys, values, k) ==
    IF k.st # "Ok" THEN Fail(k)
    ELSE MapPair(bytes, key_type, value_type, count, keys, values, k,
                 TdfRead(bytes, k.pos, value_type))

MapReadLoop(bytes, pos, key_type, value_type, count, keys, values) ==
    IF count = 0 THEN ROk(TdfMap(key_type, value_type, keys, values), pos)
    ELSE IF key_type.kind = "Unknown" /\ value_type.kind = "Unknown" /\ ExhaustsMemory(count)
         THEN RFail("Abort", TdfUnknown, pos)
    ELSE MapValue(bytes, key_type, value_type, count, keys, values,
                  TdfRead(bytes, pos, key_type))

GroupChild(bytes, first_two, values, r) ==
    IF r.st # "Ok" THEN Fail(r)
    ELSE GroupReadLoop(bytes, r.pos, first_two, Append(values, r.val))

\* 'group: loop.  After a byte 2 the cursor stays behind it and a labeled value
\* is read at once; after any other non-zero byte the cursor is moved back.
GroupReadLoop(bytes, pos, first_two, values) ==
    IF Remaining(bytes, pos) < 1 THEN RFail("UnexpectedEof", TdfUnknown, pos)
    ELSE IF bytes[pos + 1] = 0 THEN ROk(TdfGroup(first_two, values), pos + 1)
    ELSE IF bytes[pos + 1] = 2
         THEN GroupChild(bytes, TRUE, values, LabeledTdfRead(bytes, pos + 1))
    ELSE GroupChild(bytes, first_two, values, LabeledTdfRead(bytes, pos + 1 - 1))

BlobBody(bytes, size) ==
    IF size.st # "Ok" THEN Fail(size)
    ELSE IF Remaining(bytes, size.pos) < size.val
         THEN RFail("UnexpectedEof", TdfUnknown, size.pos)
    ELSE ROk(TdfBlob(SubSeq(bytes, size.pos + 1, size.pos + size.val)),
             size.pos + size.val)

BlobRead(bytes, pos) == BlobBody(bytes, VarIntRead(bytes, pos))

ListDone(sub_type, vs) ==
    IF vs.st # "Ok" THEN Fail(vs) ELSE ROk(TdfList(sub_type, vs.val), vs.pos)

ListBody(bytes, sub_type, length) ==
    IF length.st # "Ok" THEN Fail(length)
    ELSE IF CountPanics(length.val) THEN RFail("Panic", TdfUnknown, length.pos)
    ELSE ListDone(sub_type,
                  TdfsRead(bytes, length.pos, sub_type, LoopCount(length.val), <<>>))

ListRead(bytes, pos) ==
    IF Remaining(bytes, pos) < 1 THEN RFail("UnexpectedEof", TdfUnknown, pos)
    ELSE ListBody(bytes, TdfTypeFrom(bytes[pos + 1]), VarIntRead(bytes, pos + 1))

MapBody(bytes, key_type, value_type, length) ==
    IF length.st # "Ok" THEN Fail(length)
    ELSE IF CountPanics(length.val) THEN RFail("Panic", TdfUnknown, length.pos)
    ELSE MapReadLoop(bytes, length.pos, key_type, value_type,
                     LoopCount(length.val), <<>>, <<>>)

MapRead(bytes, pos) ==
    IF Remaining(bytes, pos) < 1 THEN RFail("UnexpectedEof", TdfUnknown, pos)
    ELSE IF Remaining(bytes, pos) < 2 THEN RFail("UnexpectedEof", TdfUnknown, pos + 1)
    ELSE MapBody(bytes, TdfTypeFrom(bytes[pos + 1]), TdfTypeFrom(bytes[pos + 2]),
                 VarIntRead(bytes, pos + 2))

UnionPayload(data, r) ==
    IF r.st # "Ok" THEN Fail(r) ELSE ROk(TdfUnion(data, <<r.val>>), r.pos)

\* Mutant: the "absent" discriminant is taken to be 0 instead of 0x7F
UnionReadAbsentZero(bytes, pos) ==
    IF Remaining(bytes, pos) < 1 THEN RFail("UnexpectedEof", TdfUnknown, pos)
    ELSE IF bytes[pos + 1] # 0
         THEN UnionPayload(bytes[pos + 1], LabeledTdfRead(bytes, pos + 1))
    ELSE ROk(TdfUnion(bytes[pos + 1], <<>>), pos + 1)

UnionRead(bytes, pos) ==
    IF Remaining(bytes, pos) < 1 THEN RFail("UnexpectedEof", TdfUnknown, pos)
    ELSE IF bytes[pos + 1] # 127
         THEN UnionPayload(bytes[pos + 1], LabeledTdfRead(bytes, pos + 1))
    ELSE ROk(TdfUnion(bytes[pos + 1], <<>>), pos + 1)

VarIntListDone(vs) ==
    IF vs.st # "Ok" THEN Fail(vs) ELSE ROk(TdfVarIntList(vs.val), vs.pos)

VarIntListBody(bytes, length) ==
    IF length.st # "Ok" THEN Fail(length)
    ELSE IF CountPanics(length.val) THEN RFail("Panic", TdfUnknown, length.pos)
    ELSE VarIntListDone(VarIntsRead(bytes, length.pos, LoopCount(length.val), <<>>))

VarIntListRead(bytes, pos) == VarIntListBody(bytes, VarIntRead(bytes, pos))

TupleDone(kind, vs) ==
    IF vs.st # "Ok" THEN Fail(vs)
    ELSE ROk([TdfUnknown EXCEPT !.kind = kind, !.ints = vs.val], vs.pos)

\* Pair and Tripple: n consecutive VarInts
TupleRead(bytes, pos, kind, n) == TupleDone(kind, VarIntsRead(bytes, pos, n, <<>>))

FloatRead(bytes, pos) ==
    IF Remaining(bytes, pos) < 4 THEN RFail("UnexpectedEof", TdfUnknown, pos)
    ELSE ROk(TdfFloat(ReadU32(bytes, pos)), pos + 4)

VarIntDone(r) == IF r.st # "Ok" THEN Fail(r) ELSE ROk(TdfVarInt(r.val), r.pos)
StringDone(r) == IF r.st # "Ok" THEN Fail(r) ELSE ROk(TdfString(r.val), r.pos)

TdfRead(bytes, pos, tdf_type) ==
    CASE tdf_type.kind = "VarInt" -> VarIntDone(VarIntRead(bytes, pos))
      [] tdf_type.kind = "String" -> StringDone(StringRead(bytes, pos))
      [] tdf_type.kind = "Blob" -> BlobRead(bytes, pos)
      [] tdf_type.kind = "Group" -> GroupReadLoop(bytes, pos, FALSE, <<>>)
      [] tdf_type.kind = "List" -> ListRead(bytes, pos)
      [] tdf_type.kind = "Map" -> MapRead(bytes, pos)
      [] tdf_type.kind = "Union" -> UnionRead(bytes, pos)
      [] tdf_type.kind = "VarIntList" -> VarIntListRead(bytes, pos)
      [] tdf_type.kind = "Pair" -> TupleRead(bytes, pos, "Pair", 2)
      [] tdf_type.kind = "Tripple" -> TupleRead(bytes, pos, "Tripple", 3)
      [] tdf_type.kind = "Float" -> FloatRead(bytes, pos)
      [] tdf_type.kind = "Unknown" -> ROk(TdfUnknown, pos)

NoLabeledTdf == LabeledTdf(<<>>, NoType, TdfUnknown)

LabeledDone(label, tdf_type, tdf) ==
    IF tdf.st # "Ok" THEN RFail(tdf.st, NoLabeledTdf, tdf.pos)
    ELSE ROk(LabeledTdf(label, tdf_type, tdf.val), tdf.pos)

LabeledHead(bytes, pos, head) ==
    LabeledDone(TagToLabel(TagOf(head)), TdfTypeFrom(TypeByteOf(head)),
                TdfRead(bytes, pos + 4, TdfTypeFrom(TypeByteOf(head))))

LabeledTdfRead(bytes, pos) ==
    IF Remaining(bytes, pos) < 4 THEN RFail("UnexpectedEof", NoLabeledTdf, pos)
    ELSE LabeledHead(bytes, pos, ReadU32(bytes, pos))

(***************************************************************************)
(* read_packet_contents (packet.rs:40-49)                                  *)
(***************************************************************************)
RECURSIVE ContentsLoop(_, _, _)

ContentsNext(raw_content, content, r) ==
    IF r.st # "Ok" THEN RFail(r.st, <<>>, r.pos)
    ELSE ContentsLoop(raw_content, r.pos, Append(content, r.val))

ContentsLoop(raw_content, pos, content) ==
    IF ~(pos < Len(raw_content)) THEN ROk(content, pos)
    ELSE ContentsNext(raw_content, content, LabeledTdfRead(raw_content, pos))

ReadPacketContents(raw_content) == ContentsLoop(raw_content, 0, <<>>)

(***************************************************************************)
(* read_packet (packet.rs:10-38).  The peer has sent `bytes` and closed.   *)
(***************************************************************************)
Packet(component, command, error, qtype, id, content) ==
    [component |-> component, command |-> command, error |-> error,
     qtype |-> qtype, id |-> id, content |-> content]

NoPacket == Packet(0, 0, 0, 0, 0, <<>>)

\* read_u16 (big endian) at byte offset pos
U16At(bytes, pos) == bytes[pos + 1] * 256 + bytes[pos + 2]

HasExtLength(qtype) == BitAnd(qtype, 16) # 0

\* Mutant: the sum is truncated to the 16 bits of the length field
ContentLengthU16(length, ext_length) == (length + ext_length * Pow2(16)) % Pow2(16)

\* length + ((ext_length as usize) << 16): below 2^32, so usize holds it
ContentLength(length, ext_length) == length + ext_length * Pow2(16)

\* Mutant: the content is read with `read` instead of `read_exact`, so a
\* short stream yields a short content
ReadPacketShortRead(bytes) ==
    IF Len(bytes) < 12 THEN RFail("UnexpectedEof", NoPacket, 0)
    ELSE IF Len(bytes) < (IF HasExtLength(U16At(bytes, 8)) THEN 14 ELSE 12)
         THEN RFail("UnexpectedEof", NoPacket, 12)
    ELSE ROk(Packet(U16At(bytes, 2), U16At(bytes, 4), U16At(bytes, 6),
                    U16At(bytes, 8), U16At(bytes, 10),
                    SubSeq(bytes, (IF HasExtLength(U16At(bytes, 8)) THEN 14 ELSE 12) + 1,
                           Len(bytes))),
             Len(bytes))

ReadPacket(bytes) ==
    IF Len(bytes) < 12 THEN RFail("UnexpectedEof", NoPacket, 0)
    ELSE LET length == U16At(bytes, 0)
             component == U16At(bytes, 2)
             command == U16At(bytes, 4)
             error == U16At(bytes, 6)
             qtype == U16At(bytes, 8)
             id == U16At(bytes, 10)
             at == IF HasExtLength(qtype) THEN 14 ELSE 12
         IN IF Len(bytes) < at THEN RFail("UnexpectedEof", NoPacket, 12)
            ELSE LET ext_length == IF HasExtLength(qtype) THEN U16At(bytes, 12) ELSE 0
                     content_length == ContentLength(length, ext_length)
                 IN IF Remaining(bytes, at) < content_length
                    THEN RFail("UnexpectedEof", NoPacket, at)
                    ELSE ROk(Packet(component, command, error, qtype, id,
                                    SubSeq(bytes, at + 1, at + content_length)),
                             at + content_length)

\* The bytes read_packet takes for a packet: six big-endian u16 fields, the
\* length extension when qtype has bit 0x10, then the content.
U16Bytes(x) == <<(x \div 256) % 256, x % 256>>

PacketBytes(component, command, error, qtype, id, content) ==
    U16Bytes(Len(content) % Pow2(16)) \o U16Bytes(component) \o U16Bytes(command)
    \o U16Bytes(error) \o U16Bytes(qtype) \o U16Bytes(id)
    \o (IF HasExtLength(qtype) THEN U16Bytes(Len(content) \div Pow2(16)) ELSE <<>>)
    \o content

(***************************************************************************)
(* Inputs                                                                  *)
(***************************************************************************)
MaxVarInt == 300
MaxItems == 2

SeqsUpTo(S, n) == UNION {[1..k -> S] : k \in 0..n}

\* VarInt inputs: a dense range, and the powers of two up to 2^30
VarIntInputs == 0..MaxVarInt \cup {Pow2(k) : k \in 9..30}

\* Labels: "TEST", "NUM1", every label of four sample characters
\* (NUL, DC1, ' ', '1', 'A', 'Z'), and one label that is too short
LabelTEST == <<84, 69, 83, 84>>
LabelNUM1 == <<78, 85, 77, 49>>
LabelChars == {0, 17, 32, 49, 65, 90}
LabelInputs == [1..4 -> LabelChars] \cup {LabelTEST, LabelNUM1, <<65, 66, 67>>}

IntSamples == {0, 5, 64, Pow2(13)}
StringSamples == {<<>>, <<104, 105>>, <<104, 0>>, <<195, 169>>}
BlobSamples == {<<>>, <<1, 2>>, <<255>>}
\* 0.0, 1.0, a NaN and -2.5 as bit patterns
FloatSamples == {<<0, 0>>, <<16256, 0>>, <<32704, 1>>, <<49184, 0>>}

LeafInputs ==
    {TdfVarInt(v) : v \in IntSamples}
    \cup {TdfString(s) : s \in StringSamples}
    \cup {TdfBlob(b) : b \in BlobSamples}
    \cup {TdfFloat(f) : f \in FloatSamples}
    \cup {TdfPair(a, b) : a \in IntSamples, b \in {5, 64}}
    \cup {TdfTripple(a, 5, c) : a, c \in {0, 64}}
    \cup {TdfVarIntList(vs) : vs \in SeqsUpTo({0, 5, 64}, MaxItems)}
    \cup {TdfUnknown}

\* A labeled value carries the type of its value
Labeled(label, tdf) ==
    LabeledTdf(label,
               IF tdf.kind = "Unknown" THEN UnknownType(11) ELSE Type(tdf.kind),
               tdf)

LabeledSamples ==
    {Labeled(LabelTEST, TdfString(<<104, 105>>)),
     Labeled(LabelNUM1, TdfVarInt(5)),
     Labeled(LabelTEST, TdfVarInt(64)),
     Labeled(<<65, 66, 67, 68>>, TdfVarInt(0))}

TypedSamples ==
    {<<Type("VarInt"), {TdfVarInt(v) : v \in {0, 5, 64}}>>,
     <<Type("String"), {TdfString(s) : s \in {<<104, 105>>, <<97>>}}>>,
     <<UnknownType(11), {TdfUnknown}>>}

ListInputs ==
    UNION {{TdfList(ts[1], vs) : vs \in SeqsUpTo(ts[2], MaxItems)} : ts \in TypedSamples}

MapInputs ==
    UNION {{TdfMap(Type("String"), Type("VarInt"), ks, vs) :
                ks \in [1..n -> {TdfString(<<97>>), TdfString(<<104, 105>>)}],
                vs \in [1..n -> {TdfVarInt(5), TdfVarInt(64)}]} : n \in 0..MaxItems}

GroupInputs ==
    {TdfGroup(f, vs) : f \in BOOLEAN, vs \in SeqsUpTo(LabeledSamples, MaxItems)}

UnionInputs ==
    {TdfUnion(d, v) : d \in {0, 1, 127}, v \in {<<>>} \cup {<<l>> : l \in LabeledSamples}}

NestedSamples ==
    {TdfGroup(FALSE, <<Labeled(LabelNUM1, TdfVarInt(5))>>),
     TdfGroup(TRUE, <<Labeled(LabelTEST, TdfVarInt(5))>>),
     TdfGroup(TRUE, <<>>),
     TdfUnion(127, <<>>),
     TdfUnion(1, <<Labeled(LabelTEST, TdfVarInt(5))>>),
     TdfList(Type("VarInt"), <<TdfVarInt(5), TdfVarInt(64)>>)}

NestedInputs ==
    {TdfGroup(f, <<Labeled(LabelTEST, v)>>) : f \in BOOLEAN, v \in NestedSamples}
    \cup {TdfGroup(FALSE, <<Labeled(LabelTEST, v), Labeled(LabelTEST, TdfVarInt(5))>>) :
             v \in NestedSamples}
    \cup {TdfUnion(0, <<Labeled(LabelTEST, v)>>) : v \in NestedSamples}
    \cup {TdfList(Type("Group"), <<v, v>>) :
             v \in {w \in NestedSamples : w.kind = "Group"}}

TdfInputs ==
    LeafInputs \cup ListInputs \cup MapInputs \cup GroupInputs \cup UnionInputs
    \cup NestedInputs

\* Packet contents: sequences of labeled values, written one after another
ContentInputs ==
    SeqsUpTo(LabeledSamples
             \cup {Labeled(LabelTEST, v) :
                      v \in {TdfGroup(TRUE, <<>>), TdfUnion(127, <<>>),
                             TdfUnion(1, <<Labeled(LabelTEST, TdfVarInt(5))>>),
                             TdfList(Type("VarInt"), <<>>)}},
             MaxItems)

\* Packet contents: what the writers produce for a few sequences of labeled
\* values, and contents that read_packet_contents cannot decode
GoodContents ==
    {LabeledTdfsWrite(c).out :
        c \in {<<>>,
               <<Labeled(LabelNUM1, TdfVarInt(5))>>,
               <<Labeled(LabelTEST, TdfString(<<104, 105>>)), Labeled(LabelNUM1, TdfVarInt(5))>>,
               <<Labeled(LabelTEST, TdfGroup(TRUE, <<Labeled(LabelNUM1, TdfVarInt(64))>>))>>}}

BadContents ==
    {<<1, 2>>,                          \* shorter than a tag
     <<0, 0, 0, 1, 2, 255, 0>>,         \* a String that is not UTF-8
     <<0, 0, 0, 1, 0>>,                 \* a String of length 0
     <<0, 0, 0, 4, 11, 0>>,             \* a List of count 0, elements of unknown type
     <<0, 0, 0, 7, 0>>}                 \* a VarIntList of count 0

\* What a peer sends is kept as a description: the packets, each a qtype, the
\* head of its content and a number of zero bytes that fill up the content,
\* and how many bytes of them the peer sends before it closes.
Frame(qtype, content, fill) == [qtype |-> qtype, content |-> content, fill |-> fill]
Peer(frames, keep) == [frames |-> frames, keep |-> keep]

FrameBytes(f) ==
    PacketBytes(1, 2, 0, f.qtype, 7, f.content \o [i \in 1..f.fill |-> 0])

RECURSIVE FramesBytes(_)
FramesBytes(frames) ==
    IF frames = <<>> THEN <<>> ELSE FrameBytes(Head(frames)) \o FramesBytes(Tail(frames))

FramesLen(frames) == Len(FramesBytes(frames))

\* The bytes the peer sends, and those of them not yet read
Sent == SubSeq(FramesBytes(sent.frames), 1, sent.keep)
Unread == SubSeq(Sent, consumed + 1, Len(Sent))

ValidFrames == {Frame(q, c, 0) : q \in {0, 16}, c \in GoodContents}
BadFrames == {Frame(0, c, 0) : c \in BadContents}
ValidPackets == {FrameBytes(f) : f \in ValidFrames}

\* A packet of 0x1FFFF content bytes: length 0xFFFF, length extension 1
BigFrame == Frame(16, <<0, 0, 0, 1, 2, 255, 0>>, Pow2(17) - 8)

\* Streams: every prefix of a valid packet, two packets in a row, the big
\* packet whole and cut short
StreamInputs ==
    UNION {{Peer(<<f>>, k) : k \in 0..FramesLen(<<f>>)} : f \in ValidFrames}
    \cup {Peer(<<f, g>>, FramesLen(<<f, g>>)) :
             f \in ValidFrames \cup BadFrames, g \in ValidFrames \cup BadFrames}
    \cup {Peer(<<BigFrame>>, k) :
             k \in {14, 21, Pow2(16) + 13, FramesLen(<<BigFrame>>) - 1, FramesLen(<<BigFrame>>)}}

(***************************************************************************)
(* The state machine                                                       *)
(***************************************************************************)
NoResult == RFail("None", <<>>, 0)

TypeOf(tdf) == IF tdf.kind = "Unknown" THEN UnknownType(11) ELSE Type(tdf.kind)

InitCodec ==
    /\ \/ op = "varint" /\ input \in VarIntInputs
       \/ op = "label" /\ input \in LabelInputs
       \/ op = "tdf" /\ input \in TdfInputs
       \/ op = "contents" /\ input \in ContentInputs
    /\ wire = WOk(<<>>)
    /\ result = NoResult
    /\ pc = "start"
    /\ sent = Peer(<<>>, 0) /\ consumed = 0 /\ conn = "none" /\ log = <<>>

InitConn ==
    /\ op = "conn"
    /\ sent \in StreamInputs
    /\ consumed = 0
    /\ conn = "open"
    /\ log = <<>>
    /\ input = <<>> /\ wire = WOk(<<>>) /\ result = NoResult /\ pc = "none"

Init ==
    /\ build \in {"debug", "release"}
    /\ (InitCodec \/ InitConn)

ConnUnchanged == UNCHANGED <<sent, consumed, conn, log>>

\* A writer's result moves the run on to the reader, or ends it in a panic
Written(w) ==
    /\ wire' = w
    /\ pc' = IF w.st = "Ok" THEN "written" ELSE "panicked"
    /\ UNCHANGED <<build, op, input, result>>
    /\ ConnUnchanged

Read(r) ==
    /\ result' = r
    /\ pc' = "done"
    /\ UNCHANGED <<build, op, input, wire>>
    /\ ConnUnchanged

VarIntWriteStep == pc = "start" /\ op = "varint" /\ Written(WOk(VarIntWrite(input)))
VarIntReadStep == pc = "written" /\ op = "varint" /\ Read(VarIntRead(wire.out, 0))

LabelToTagStep ==
    /\ pc = "start" /\ op = "label"
    /\ Written(IF LabelToTagPanics(input) THEN WPanic ELSE WOk(LabelToTag(input)))

\* the tag as LabeledTdf::read hands it over: head & 0xFFFFFF00
TagToLabelStep ==
    /\ pc = "written" /\ op = "label"
    /\ Read(TagToLabel(TagOf(ReadU32(wire.out \o <<0>>, 0))))

TdfWriteStep == pc = "start" /\ op = "tdf" /\ Written(TdfWrite(input))
TdfReadStep == pc = "written" /\ op = "tdf" /\ Read(TdfRead(wire.out, 0, TypeOf(input)))

LabeledWriteStep == pc = "start" /\ op = "contents" /\ Written(LabeledTdfsWrite(input))
ReadContentsStep == pc = "written" /\ op = "contents" /\ Read(ReadPacketContents(wire.out))

\* One iteration of handle_client's loop (main.rs:26-48): the outcome of
\* read_packet and, when a packet was read, of read_packet_contents
\* Mutant: a read_packet error is logged like a decode error and the loop goes on
LoggedNoBreak(packet, content) ==
    /\ consumed' = consumed + packet.pos
    /\ log' = Append(log, [read |-> packet.st, contents |-> content.st,
                           length |-> Len(packet.val.content),
                           items |-> Len(content.val)])
    /\ conn' = IF content.st = "Panic" THEN "panicked"
               ELSE IF content.st = "Abort" THEN "aborted"
               ELSE "open"

Logged(packet, content) ==
    /\ consumed' = consumed + packet.pos
    /\ log' = Append(log, [read |-> packet.st, contents |-> content.st,
                           length |-> Len(packet.val.content),
                           items |-> Len(content.val)])
    /\ conn' = IF packet.st # "Ok" THEN "closed"
               ELSE IF content.st = "Panic" THEN "panicked"
               ELSE IF content.st = "Abort" THEN "aborted"
               ELSE "open"

Received(packet) ==
    Logged(packet,
           IF packet.st = "Ok" THEN ReadPacketContents(packet.val.content) ELSE NoResult)

HandleClient ==
    /\ op = "conn" /\ conn = "open"
    /\ Received(ReadPacket(Unread))
    /\ UNCHANGED <<build, op, input, wire, result, pc, sent>>

Next ==
    \/ VarIntWriteStep
    \/ VarIntReadStep
    \/ LabelToTagStep
    \/ TagToLabelStep
    \/ TdfWriteStep
    \/ TdfReadStep
    \/ LabeledWriteStep
    \/ ReadContentsStep
    \/ HandleClient

Spec == Init /\ [][Next]_vars

(***************************************************************************)
(* Properties                                                              *)
(***************************************************************************)
CodecEnded == pc \in {"done", "panicked"}

\* C1: for every constructible Tdf value v, Tdf::read of the bytes that
\* Tdf::write(v) produced, for v's type, returns a value equal to v.
C1_TdfRoundTrip ==
    (op = "tdf" /\ CodecEnded) =>
        (pc = "done" /\ result.st = "Ok" /\ result.val = input)

\* C2: for every value v the VarInt scheme represents, VarInt::read of the
\* bytes of VarInt::write(v) returns exactly v, encodings of three or more
\* bytes included.
C2_VarIntRoundTrip ==
    (op = "varint" /\ pc = "done") => (result.st = "Ok" /\ result.val = input)

\* The 64 code points of the label alphabet: ' ' to '_', which holds the
\* upper-case letters and digits of the protocol's labels ("TEST", "NUM1")
\* and on which label_to_tag keeps every character's 6 bits distinct.
SupportedAlphabet == 32..95

\* C3: for every 4-character label over the supported 64 code point
\* alphabet, tag_to_label(label_to_tag(label)) is the label.
C3_LabelRoundTrip ==
    (/\ op = "label" /\ CodecEnded
     /\ Len(input) = 4
     /\ \A i \in 1..4 : input[i] \in SupportedAlphabet)
    => (pc = "done" /\ result = input)

IsPrefix(s, t) == Len(s) <= Len(t) /\ s = SubSeq(t, 1, Len(s))

ProperPrefixOfValidPacket(s) ==
    /\ s # <<>>
    /\ \E p \in ValidPackets : IsPrefix(s, p) /\ Len(s) < Len(p)

\* C4: fed a proper non-empty prefix of a valid encoded packet, the packet
\* reader ends in an end-of-stream error: no panic and no successful decode.
C4_TruncatedPacket ==
    (op = "conn" /\ log # <<>> /\ ProperPrefixOfValidPacket(Sent)) =>
        /\ Len(log) = 1
        /\ log[1].read = "UnexpectedEof"
        /\ log[1].contents = "None"
        /\ conn = "closed"

C4_Witness ==
    /\ op = "conn" /\ ProperPrefixOfValidPacket(Sent)
    /\ Len(Sent) > 14
    /\ Len(log) = 1 /\ log[1].read = "UnexpectedEof" /\ conn = "closed"

IsEmptyCollection(v) ==
    \/ v.kind = "List" /\ v.items = <<>>
    \/ v.kind = "Map" /\ v.items = <<>> /\ v.items2 = <<>>
    \/ v.kind = "VarIntList" /\ v.ints = <<>>

\* C5: a List, Map or VarIntList with zero elements is written and read back
\* without underflow or panic, and the result is the empty collection.
C5_EmptyCollections ==
    (op = "tdf" /\ IsEmptyCollection(input) /\ CodecEnded) =>
        (pc = "done" /\ result.st = "Ok" /\ result.val = input)

IsViolation(outcome) ==
    outcome.read # "Ok" \/ outcome.contents \notin {"Ok", "None"}

C7_UnionRead ==
    (op = "tdf" /\ input.kind = "Union" /\ pc = "done") =>
        IF wire.out[1] = 127
        THEN result = ROk(TdfUnion(127, <<>>), 1)
        ELSE LET payload == LabeledTdfRead(wire.out, 1)
             IN /\ result.st = payload.st
                /\ payload.st = "Ok" =>
                     result = ROk(TdfUnion(wire.out[1], <<payload.val>>), payload.pos)
                /\ input.items[1].value.kind = "VarInt" =>
                     /\ result.st = "Ok"
                     /\ result.val.items[1].type = input.items[1].type
                     /\ result.val.items[1].value = input.items[1].value
                     /\ result.pos = Len(wire.out)

C7_Witness ==
    /\ op = "tdf" /\ input.kind = "Union" /\ pc = "done"
    /\ wire.out[1] # 127
    /\ result.st = "Ok"
    /\ Len(result.val.items) = 1
    /\ result.val.items[1] = input.items[1]
    /\ result.pos = Len(wire.out)

\* The header of the stream's first packet, taken field by field
SentLength == Sent[1] * 256 + Sent[2]
SentQtype == Sent[9] * 256 + Sent[10]
SentHasExt == (SentQtype \div 16) % 2 = 1
SentExt == IF SentHasExt THEN Sent[13] * 256 + Sent[14] ELSE 0
SentHeader == IF SentHasExt THEN 14 ELSE 12

\* C8: read_packet reads the length extension only when qtype & 0x10 is set
\* (else it is 0) and reads exactly length + (extension << 16) content bytes,
\* with no truncation to 16 bits: 0xFFFF and extension 1 give 0x1FFFF.
C8_ContentLength ==
    (op = "conn" /\ Len(log) = 1 /\ Len(Sent) >= 12 /\ Len(Sent) >= SentHeader) =>
        LET expected == SentLength + SentExt * 65536
        IN IF Len(Sent) - SentHeader >= expected
           THEN /\ log[1].read = "Ok"
                /\ log[1].length = expected
                /\ consumed = SentHeader + expected
           ELSE log[1].read = "UnexpectedEof"

C8_Witness ==
    /\ op = "conn" /\ Len(log) = 1
    /\ Len(Sent) >= 14 /\ SentHasExt /\ SentLength = 65535 /\ SentExt = 1
    /\ log[1].read = "Ok"
    /\ log[1].length = 131071
    /\ consumed = 14 + 131071
    /\ consumed = Len(Sent)

\* C9: a sequence of labeled values written with LabeledTdf::write and read
\* back by the stream reader gives as many entries, with the same labels in
\* the same order and equal values; so for "TEST" = "hi", "NUM1" = 5.
C9_ContentsRoundTrip ==
    (op = "contents" /\ CodecEnded) =>
        /\ pc = "done"
        /\ result.st = "Ok"
        /\ Len(result.val) = Len(input)
        /\ \A i \in 1..Len(input) :
              /\ result.val[i].label = input[i].label
              /\ result.val[i].value = input[i].value

\* C10: reading a Group, a byte 0 ends the group at any position, also right
\* after the start marker; a byte 2 as the very first byte sets the flag and
\* is consumed without giving a child; any other byte is pushed back and one
\* labeled value is read as the next child.  So the bytes the writer emits
\* for a group (marker if flagged, the children, 0) are read back as a group
\* with that flag and that many children, all bytes consumed.
C10_GroupRead ==
    (op = "tdf" /\ input \in GroupInputs /\ pc = "done") =>
        /\ result.st = "Ok"
        /\ result.val.flag = input.flag
        /\ Len(result.val.items) = Len(input.items)
        /\ result.pos = Len(wire.out)

====
